---- MODULE Spec2Model ----
(***************************************************************************)
(* Roth Scrub invoice tool: the invoice form (InvoiceForm), the preview    *)
(* with its Download and Share handlers (InvoicePreview) and the App that  *)
(* mounts one or the other.                                                *)
(*                                                                         *)
(* Numbers are exact rationals <<numerator, denominator>>; the rounding of *)
(* IEEE-754 doubles is not modelled.  Strings are TLA+ strings, except     *)
(* item ids, which are decimal digit sequences so that parseInt and        *)
(* toString are computed.                                                  *)
(***************************************************************************)
EXTENDS Integers, Sequences, FiniteSets, TLC

VARIABLES
    showPreview,      \* App: useState(false)
    currentInvoice,   \* App: useState<Invoice | null>(null); <<>> is null, <<inv>> an invoice
    customerName,     \* InvoiceForm state
    date,             \* InvoiceForm state
    currency,         \* InvoiceForm state
    items,            \* InvoiceForm state: sequence of InvoiceItem
    discountPercent,  \* InvoiceForm state
    deliveryFee,      \* InvoiceForm state
    storage,          \* localStorage slot STORAGE_KEY: <<>> absent, <<text>> present
    storageWritable,  \* environment: does localStorage.setItem succeed in this session
    isProcessing,     \* InvoicePreview: useState(false)
    rendering,        \* which handler is suspended at `await generateImage()`
    pendingBlob,      \* share continuations waiting for the canvas.toBlob callback
    pendingNative,    \* share continuations waiting for navigator.share to settle
    effect            \* observable side effects of the last handler step

vars == <<showPreview, currentInvoice, customerName, date, currency, items,
          discountPercent, deliveryFee, storage, storageWritable, isProcessing,
          rendering, pendingBlob, pendingNative, effect>>

formVars == <<customerName, date, currency, items, discountPercent, deliveryFee>>
previewVars == <<isProcessing, rendering, pendingBlob, pendingNative>>

----------------------------------------------------------------------------
(* Bounds of the model *)

MaxId == 2          \* addItem is not taken once the new id would exceed this
MaxInFlight == 1    \* share continuations that may be pending at once

----------------------------------------------------------------------------
(* Exact rational arithmetic for the JavaScript numbers *)

Abs(n) == IF n < 0 THEN -n ELSE n

RECURSIVE Gcd(_, _)
Gcd(a, b) == IF b = 0 THEN a ELSE Gcd(b, a % b)

Norm(n, d) ==
    LET s == IF d < 0 THEN -1 ELSE 1
        g == Gcd(Abs(n), Abs(d))
    IN  <<(s * n) \div g, (s * d) \div g>>

R(i) == <<i, 1>>
RAdd(a, b) == Norm(a[1] * b[2] + b[1] * a[2], a[2] * b[2])
RSub(a, b) == Norm(a[1] * b[2] - b[1] * a[2], a[2] * b[2])
RMul(a, b) == Norm(a[1] * b[1], a[2] * b[2])
RDiv(a, b) == Norm(a[1] * b[2], a[2] * b[1])

----------------------------------------------------------------------------
(* Values the user can enter *)

Today == "today"
UnknownCustomer == "Unknown Customer"
Seller == "Sreyroth"
\* one product name stands for the four of the list
PRODUCTS == {"scrub-coffee"}

CustomerNames == {"", "Dara"}
Dates == {"", Today}
Currencies == {"USD", "KHR"}
ItemNames == {""} \cup PRODUCTS
Quantities == {R(0), <<3, 2>>}
UnitPrices == {R(0), R(5)}
Discounts == {R(0), R(10), R(-10), R(150)}
DeliveryFees == {R(0), R(2), R(-1)}

\* String.prototype.trim on the strings of the model
Trim(s) == IF s = " " THEN "" ELSE s

\* JavaScript `v || d` for strings and for numbers
OrStr(v, d) == IF v = "" THEN d ELSE v
OrNum(v, d) == IF v[1] = 0 THEN d ELSE v

----------------------------------------------------------------------------
(* Item ids: strings of decimal digits *)

RECURSIVE parseInt(_)
parseInt(s) ==
    IF Len(s) = 0 THEN 0
    ELSE 10 * parseInt(SubSeq(s, 1, Len(s) - 1)) + s[Len(s)]

RECURSIVE toString(_)
toString(n) ==
    IF n < 10 THEN <<n>> ELSE Append(toString(n \div 10), n % 10)

RECURSIVE MaxOf(_, _)
MaxOf(s, m) ==
    IF Len(s) = 0 THEN m
    ELSE MaxOf(Tail(s), IF parseInt(Head(s).id) > m THEN parseInt(Head(s).id) ELSE m)

\* variant: the new id is the number of items plus one
newId_byLength(its) == toString(Len(its) + 1)

\* (Math.max(...items.map(i => parseInt(i.id)), 0) + 1).toString()
newId(its) == toString(MaxOf(its, 0) + 1)

BlankItem(id) ==
    [id |-> id, name |-> "", quantity |-> R(0), unitPrice |-> R(0), amount |-> R(0)]

\* items.reduce((sum, item) => sum + item.amount, 0)
RECURSIVE SumAmounts(_)
SumAmounts(s) ==
    IF Len(s) = 0 THEN R(0)
    ELSE RAdd(SumAmounts(SubSeq(s, 1, Len(s) - 1)), s[Len(s)].amount)

----------------------------------------------------------------------------
(* Draft persistence: saveToStorage / loadFromStorage *)

\* the object InvoiceForm hands to saveToStorage
DraftOf(cn, d, cur, its, dp, fee) ==
    [customerName |-> cn, date |-> d, currency |-> cur, items |-> its,
     discountPercent |-> dp, deliveryFee |-> fee]

Draft == DraftOf(customerName, date, currency, items, discountPercent, deliveryFee)

\* JSON text of a draft: the members in insertion order
JSONstringify(data) ==
    << <<"customerName", data.customerName>>, <<"date", data.date>>,
       <<"currency", data.currency>>, <<"items", data.items>>,
       <<"discountPercent", data.discountPercent>>,
       <<"deliveryFee", data.deliveryFee>> >>

Member(text, key) == text[CHOOSE i \in DOMAIN text : text[i][1] = key][2]

JSONparse(text) ==
    [customerName |-> Member(text, "customerName"), date |-> Member(text, "date"),
     currency |-> Member(text, "currency"), items |-> Member(text, "items"),
     discountPercent |-> Member(text, "discountPercent"),
     deliveryFee |-> Member(text, "deliveryFee")]

\* localStorage.setItem throws when the store is unavailable or full; the
\* exception is caught and the slot keeps what it held
saveToStorage(store, data) ==
    IF storageWritable THEN <<JSONstringify(data)>> ELSE store

\* <<>> is null, <<d>> the parsed object
loadFromStorage(store) ==
    IF Len(store) = 0 THEN <<>> ELSE <<JSONparse(store[1])>>

DefaultItems == <<BlankItem(toString(1))>>

\* the six useState initialisers of InvoiceForm
InitialState(savedData) ==
    IF Len(savedData) = 0
    THEN DraftOf("", Today, "USD", DefaultItems, R(0), R(0))
    ELSE DraftOf(OrStr(savedData[1].customerName, ""),
                 OrStr(savedData[1].date, Today),
                 OrStr(savedData[1].currency, "USD"),
                 savedData[1].items,
                 OrNum(savedData[1].discountPercent, R(0)),
                 OrNum(savedData[1].deliveryFee, R(0)))

SetForm(st) ==
    /\ customerName' = st.customerName
    /\ date' = st.date
    /\ currency' = st.currency
    /\ items' = st.items
    /\ discountPercent' = st.discountPercent
    /\ deliveryFee' = st.deliveryFee

\* InvoiceForm mounts: state from the slot, then the auto-save effect runs
MountForm(store) ==
    LET st == InitialState(loadFromStorage(store))
    IN  SetForm(st) /\ storage' = saveToStorage(store, st)

\* what the last step did: the handler, its input, and what it showed or called
Effect(op, arg, out) == [op |-> op, arg |-> arg, out |-> out]

----------------------------------------------------------------------------
(* InvoiceForm: edits.  Every state change re-renders and the auto-save    *)
(* effect writes the new draft.                                            *)

Edit(op, arg, st) ==
    /\ ~showPreview
    /\ SetForm(st)
    /\ storage' = saveToStorage(storage, st)
    /\ effect' = Effect(op, arg, {})
    /\ UNCHANGED <<showPreview, currentInvoice, storageWritable, previewVars>>

SetCustomerName(v) == Edit("edit", "", [Draft EXCEPT !.customerName = v])
SetDate(v) == Edit("edit", "", [Draft EXCEPT !.date = v])
SetCurrency(v) == Edit("edit", "", [Draft EXCEPT !.currency = v])
SetDiscountPercent(v) == Edit("edit", "", [Draft EXCEPT !.discountPercent = OrNum(v, R(0))])
SetDeliveryFee(v) == Edit("edit", "", [Draft EXCEPT !.deliveryFee = OrNum(v, R(0))])

addItemTo(its) == Append(its, BlankItem(newId(its)))

\* variant: the last item can be removed too
removeItemFrom_unguarded(its, id) == SelectSeq(its, LAMBDA item : item.id # id)

removeItemFrom(its, id) ==
    IF Len(its) > 1 THEN SelectSeq(its, LAMBDA item : item.id # id) ELSE its

\* variant: the amount follows the quantity only
Recomputes_quantityOnly(field) == field = "quantity"

Recomputes(field) == field \in {"quantity", "unitPrice"}

updateItemIn(its, id, field, value) ==
    [i \in DOMAIN its |->
        IF its[i].id = id
        THEN LET updated == [its[i] EXCEPT ![field] = value]
             IN  IF Recomputes(field)
                 THEN [updated EXCEPT
                         !.amount = RMul(updated.quantity, updated.unitPrice)]
                 ELSE updated
        ELSE its[i]]

addItem ==
    /\ parseInt(newId(items)) <= MaxId
    /\ Edit("addItem", "", [Draft EXCEPT !.items = addItemTo(items)])

removeItem(id) == Edit("removeItem", id, [Draft EXCEPT !.items = removeItemFrom(items, id)])

updateItem(id, field, value) ==
    Edit("updateItem", id, [Draft EXCEPT !.items = updateItemIn(items, id, field, value)])

ItemIds == {items[i].id : i \in DOMAIN items}

EditItems ==
    \/ addItem
    \/ \E id \in ItemIds : removeItem(id)
    \/ \E id \in ItemIds, v \in ItemNames : updateItem(id, "name", v)
    \/ \E id \in ItemIds, v \in Quantities : updateItem(id, "quantity", OrNum(v, R(0)))
    \/ \E id \in ItemIds, v \in UnitPrices : updateItem(id, "unitPrice", OrNum(v, R(0)))

EditTotals ==
    \/ \E v \in Discounts : SetDiscountPercent(v)
    \/ \E v \in DeliveryFees : SetDeliveryFee(v)

EditHeader ==
    \/ \E v \in CustomerNames : SetCustomerName(v)
    \/ \E v \in Dates : SetDate(v)
    \/ \E v \in Currencies : SetCurrency(v)

----------------------------------------------------------------------------
(* InvoiceForm: derived values and handlePreview *)

subtotal(its) == SumAmounts(its)
discountAmount(its, dp) == RMul(subtotal(its), RDiv(dp, R(100)))
\* variant: the delivery fee is left out of the total
total_withoutFee(its, dp, fee) == RSub(subtotal(its), discountAmount(its, dp))

total(its, dp, fee) == RAdd(RSub(subtotal(its), discountAmount(its, dp)), fee)

Named(its) == SelectSeq(its, LAMBDA item : Trim(item.name) # "")

FinalizedInvoice ==
    [customerName |-> OrStr(Trim(customerName), UnknownCustomer),
     date |-> date,
     currency |-> currency,
     items |-> Named(items),
     subtotal |-> subtotal(items),
     discountPercent |-> discountPercent,
     deliveryFee |-> deliveryFee,
     total |-> total(items, discountPercent, deliveryFee),
     sellerName |-> Seller]

\* InvoiceForm.handlePreview calls App.handlePreview; the App then renders
\* InvoicePreview instead of InvoiceForm.  The form is unmounted: its six
\* variables keep what the user last entered but nothing reads them until
\* the form is mounted again from the storage slot.
handlePreview ==
    /\ ~showPreview
    /\ currentInvoice' = <<FinalizedInvoice>>
    /\ showPreview' = TRUE
    /\ effect' = Effect("preview", "", {})
    /\ UNCHANGED <<formVars, storage, storageWritable, previewVars>>

\* The page is loaded again: App and InvoiceForm start from their initial
\* state, pending callbacks of the old page are gone.
Reload ==
    /\ showPreview' = FALSE
    /\ currentInvoice' = <<>>
    /\ MountForm(storage)
    /\ isProcessing' = FALSE
    /\ rendering' = "none"
    /\ pendingBlob' = 0
    /\ pendingNative' = 0
    /\ effect' = Effect("reload", "", {})
    /\ UNCHANGED storageWritable

Init ==
    /\ storageWritable \in BOOLEAN
    /\ showPreview = FALSE
    /\ currentInvoice = <<>>
    /\ LET st == InitialState(loadFromStorage(<<>>))
       IN  /\ customerName = st.customerName
           /\ date = st.date
           /\ currency = st.currency
           /\ items = st.items
           /\ discountPercent = st.discountPercent
           /\ deliveryFee = st.deliveryFee
           /\ storage = IF storageWritable THEN <<JSONstringify(st)>> ELSE <<>>
    /\ isProcessing = FALSE
    /\ rendering = "none"
    /\ pendingBlob = 0
    /\ pendingNative = 0
    /\ effect = Effect("mount", "", {})

\* The editor: the edits of the items and of the totals, Preview, and
\* loading the page again
Next == EditItems \/ EditTotals \/ handlePreview \/ Reload

Spec == Init /\ [][Next]_vars

----------------------------------------------------------------------------
(* App.handleBack and InvoicePreview: Download and Share *)

\* the App renders InvoiceForm again, which mounts from the storage slot;
\* currentInvoice is left as it is
BackToForm(store) ==
    /\ showPreview' = FALSE
    /\ MountForm(store)
    /\ UNCHANGED currentInvoice

\* the Back button of the preview, disabled while isProcessing
handleBack ==
    /\ showPreview
    /\ ~isProcessing
    /\ BackToForm(storage)
    /\ effect' = Effect("back", "", {"onBack"})
    /\ UNCHANGED <<storageWritable, previewVars>>

\* how the rendering of the invoice element can end
RenderOutcomes == {"canvas", "taintedCanvas", "throws", "noElement"}

\* variant: an exception of the rendering is not caught
generateImage_uncaught(outcome) ==
    IF outcome = "noElement" THEN "null"
    ELSE IF outcome = "throws" THEN "rejected"
    ELSE outcome

\* generateImage: null without the element, null when fonts.ready or
\* html2canvas throws (caught), the canvas otherwise
generateImage(outcome) ==
    IF outcome = "noElement" THEN "null"
    ELSE IF outcome = "throws" THEN "null"
    ELSE outcome

InFlightShares == pendingBlob + pendingNative

\* handleDownload up to `await generateImage()`
StartDownload ==
    /\ showPreview
    /\ ~isProcessing
    /\ isProcessing' = TRUE
    /\ rendering' = "download"
    /\ effect' = Effect("startDownload", "", {})
    /\ UNCHANGED <<showPreview, currentInvoice, formVars, storage, storageWritable,
                   pendingBlob, pendingNative>>

\* handleShareToTelegram up to `await generateImage()`
StartShare ==
    /\ showPreview
    /\ ~isProcessing
    /\ InFlightShares < MaxInFlight
    /\ isProcessing' = TRUE
    /\ rendering' = "share"
    /\ effect' = Effect("startShare", "", {})
    /\ UNCHANGED <<showPreview, currentInvoice, formVars, storage, storageWritable,
                   pendingBlob, pendingNative>>

\* variant: the handlers go on without a canvas
HasCanvas_always(canvas) == TRUE

\* `if (!canvas) { alert(...); return; }`
HasCanvas(canvas) == canvas # "null"

\* handleDownload after the await
DownloadResumes(canvas) ==
    /\ isProcessing' = FALSE
    /\ rendering' = "none"
    /\ UNCHANGED <<storageWritable, pendingBlob, pendingNative>>
    /\ IF ~HasCanvas(canvas)
       THEN /\ effect' = Effect("download", canvas, {"alertRetry"})
            /\ UNCHANGED <<showPreview, currentInvoice, formVars, storage>>
       ELSE IF canvas = "taintedCanvas"
       THEN \* canvas.toDataURL throws: the handler ends there
            /\ effect' = Effect("download", canvas, {"unhandledRejection"})
            /\ UNCHANGED <<showPreview, currentInvoice, formVars, storage>>
       ELSE \* link.click(), localStorage.removeItem(STORAGE_KEY), onBack()
            /\ effect' = Effect("download", canvas,
                                {"fileDownload", "storageRemove", "onBack"})
            /\ BackToForm(<<>>)

\* handleShareToTelegram after the await, up to the call of canvas.toBlob
ShareResumes(canvas) ==
    /\ isProcessing' = FALSE
    /\ rendering' = "none"
    /\ UNCHANGED <<showPreview, currentInvoice, formVars, storage, storageWritable,
                   pendingNative>>
    /\ IF ~HasCanvas(canvas)
       THEN /\ effect' = Effect("share", canvas, {"alertRetry"})
            /\ UNCHANGED pendingBlob
       ELSE IF canvas = "taintedCanvas"
       THEN \* canvas.toBlob throws: caught by the outer try
            /\ effect' = Effect("share", canvas, {"alertShareFailed"})
            /\ UNCHANGED pendingBlob
       ELSE /\ effect' = Effect("share", canvas, {"toBlob"})
            /\ pendingBlob' = pendingBlob + 1

\* the promise of generateImage settles and the suspended handler goes on;
\* were the promise rejected, the handler would end at the await
RenderSettles(outcome) ==
    /\ rendering # "none"
    /\ LET canvas == generateImage(outcome)
       IN  IF canvas = "rejected"
           THEN /\ rendering' = "none"
                /\ effect' = Effect(rendering, canvas, {"unhandledRejection"})
                /\ UNCHANGED <<showPreview, currentInvoice, formVars, storage,
                               storageWritable, isProcessing, pendingBlob,
                               pendingNative>>
           ELSE IF rendering = "download"
           THEN DownloadResumes(canvas)
           ELSE ShareResumes(canvas)

\* the callback given to canvas.toBlob, up to `await navigator.share(...)`
BlobCallback(blob, canShare) ==
    /\ pendingBlob > 0
    /\ pendingBlob' = pendingBlob - 1
    /\ UNCHANGED <<showPreview, currentInvoice, formVars, storage, storageWritable,
                   isProcessing, rendering>>
    /\ IF blob = "null"
       THEN /\ effect' = Effect("blobCallback", blob, {"alertCreateFailed"})
            /\ UNCHANGED pendingNative
       ELSE IF canShare
       THEN /\ effect' = Effect("blobCallback", blob, {"navigatorShare"})
            /\ pendingNative' = pendingNative + 1
       ELSE /\ effect' = Effect("blobCallback", blob, {"fallbackToTelegramLink"})
            /\ UNCHANGED pendingNative

\* values navigator.share can reject with
Thrown ==
    {[isError |-> TRUE, name |-> "AbortError"],
     [isError |-> TRUE, name |-> "NotAllowedError"],
     [isError |-> FALSE, name |-> "AbortError"],
     [isError |-> FALSE, name |-> ""]}

\* `error instanceof Error && error.name !== 'AbortError'`
FallsBack(error) == error.isError /\ error.name # "AbortError"

ShareResolves ==
    /\ pendingNative > 0
    /\ pendingNative' = pendingNative - 1
    /\ effect' = Effect("shareResolved", "", {"logShared"})
    /\ UNCHANGED <<showPreview, currentInvoice, formVars, storage, storageWritable,
                   isProcessing, rendering, pendingBlob>>

ShareRejects(error) ==
    /\ pendingNative > 0
    /\ pendingNative' = pendingNative - 1
    /\ effect' = Effect("shareRejected", error,
                        IF FallsBack(error) THEN {"fallbackToTelegramLink"} ELSE {})
    /\ UNCHANGED <<showPreview, currentInvoice, formVars, storage, storageWritable,
                   isProcessing, rendering, pendingBlob>>

Settle == \E outcome \in RenderOutcomes : RenderSettles(outcome)

\* The whole application, with the edits of the header fields only
AppNext ==
    \/ EditHeader
    \/ handlePreview
    \/ handleBack
    \/ StartDownload
    \/ StartShare
    \/ Settle
    \/ \E blob \in {"blob", "null"}, canShare \in BOOLEAN : BlobCallback(blob, canShare)
    \/ ShareResolves
    \/ \E error \in Thrown : ShareRejects(error)
    \/ Reload

AppSpec == Init /\ [][AppNext]_vars

\* the rendering call eventually settles
AppLiveSpec == AppSpec /\ WF_vars(Settle)

----------------------------------------------------------------------------
(* Properties *)

HasInvoice == Len(currentInvoice) = 1
Invoice == currentInvoice[1]

\* C1: the subtotal of every invoice handed to onPreview is the sum of the
\* amounts of exactly the items the invoice contains (blank-named items,
\* which are dropped from invoice.items, contribute nothing)
C1_SubtotalOverIncludedItems ==
    HasInvoice => Invoice.subtotal = SumAmounts(Invoice.items)

\* C2: the total of every invoice handed to onPreview is
\* subtotal - subtotal*discountPercent/100 + deliveryFee, whatever discount
\* and fee were entered
C2_TotalFormula ==
    HasInvoice =>
        Invoice.total =
            RAdd(RSub(Invoice.subtotal,
                      RDiv(RMul(Invoice.subtotal, Invoice.discountPercent), R(100))),
                 Invoice.deliveryFee)

\* an invoice with a discount above 100, a negative fee and a subtotal that
\* is not zero has been previewed
C2_Witness ==
    /\ HasInvoice
    /\ Invoice.subtotal # R(0)
    /\ Invoice.discountPercent = R(150)
    /\ Invoice.deliveryFee = R(-1)

AmountsConsistent ==
    \A i \in DOMAIN items :
        items[i].amount = RMul(items[i].quantity, items[i].unitPrice)

OthersUntouched ==
    effect'.op = "updateItem" =>
        /\ Len(items') = Len(items)
        /\ \A i \in DOMAIN items : items[i].id # effect'.arg => items'[i] = items[i]

\* C3: after any sequence of addItem, removeItem and updateItem from the
\* default draft every item has amount = quantity * unitPrice, and an
\* updateItem step leaves the items with another id as they were
C3_AmountIsQuantityTimesPrice == [](AmountsConsistent) /\ [][OthersUntouched]_vars

\* two items, the last step updated one of them to a non-zero amount and
\* the other one has a different amount
C3_Witness ==
    /\ effect.op = "updateItem"
    /\ Len(items) = 2
    /\ \E i, j \in DOMAIN items :
        /\ items[i].id = effect.arg
        /\ items[i].amount = <<15, 2>>
        /\ items[j].amount = R(0)
        /\ items[j].quantity # R(0)

\* C4: once a Download whose image was generated has returned to the form,
\* the storage slot holds no saved draft
C4_NoDraftAfterExport ==
    (effect.op = "download" /\ "onBack" \in effect.out) => storage = <<>>

\* C5: saving the draft of the form and initialising a fresh editor from
\* the slot gives back the same six fields
C5_DraftRoundTrip ==
    (storageWritable /\ ~showPreview) =>
        InitialState(loadFromStorage(saveToStorage(storage, Draft))) = Draft

\* C6: at most one export or share operation is in flight at any time
C6_AtMostOneInFlight ==
    (IF rendering # "none" THEN 1 ELSE 0) + InFlightShares <= 1

\* C7: whenever isProcessing is true it becomes false again, given that the
\* rendering call settles
C7_ProcessingEnds == isProcessing ~> ~isProcessing

\* a Share whose image generation failed has put isProcessing back to false
C7_Witness ==
    /\ effect.op = "share"
    /\ effect.arg = "null"
    /\ ~isProcessing

ExportSteps ==
    {"startDownload", "startShare", "download", "share", "blobCallback",
     "shareResolved", "shareRejected"}

FailedGeneration ==
    /\ rendering # "none"
    /\ effect'.op \in {"download", "share"}
    /\ effect'.arg = "null"

\* C8: when generateImage returns null the storage slot is unchanged, nothing
\* is downloaded or shared, the preview stays and the retry message is shown;
\* of the steps of Download and Share only a Download whose image was
\* generated changes the storage slot
C8_FailedExportKeepsDraft ==
    [][ /\ FailedGeneration =>
            /\ storage' = storage
            /\ showPreview /\ showPreview'
            /\ effect'.out = {"alertRetry"}
            /\ pendingBlob' = pendingBlob /\ pendingNative' = pendingNative
        /\ (effect'.op \in ExportSteps /\ storage' # storage) =>
            /\ rendering = "download"
            /\ effect'.op = "download"
            /\ "fileDownload" \in effect'.out ]_vars

\* a Download failed to generate the image while a draft is saved
C8_Witness ==
    /\ effect.op = "download"
    /\ effect.arg = "null"
    /\ storage # <<>>
    /\ showPreview

\* C9: every failure of the native share call other than an AbortError,
\* whatever the value thrown, invokes the text-link fallback
C9_OtherFailureFallsBack ==
    (effect.op = "shareRejected" /\ effect.arg.name # "AbortError") =>
        "fallbackToTelegramLink" \in effect.out

\* C10: when the writes to storage fail, Back from the preview shows the
\* draft exactly as it was last edited
C10_DraftSurvivesPreview ==
    [][(~storageWritable /\ effect'.op = "back") => Draft' = Draft]_vars

----------------------------------------------------------------------------
(* utils/formatCurrency: parseCurrencyInput and formatCurrency.  A string  *)
(* is a sequence of one-character strings.                                 *)

MaxLen == 5         \* longest text given to parseCurrencyInput
MaxAmount == 1200   \* the whole amounts 0..MaxAmount are formatted

Digits10 == <<"0", "1", "2", "3", "4", "5", "6", "7", "8", "9">>
DigitChars == {Digits10[i] : i \in DOMAIN Digits10}
DigitVal(c) == (CHOOSE i \in DOMAIN Digits10 : Digits10[i] = c) - 1
DigitChar(n) == Digits10[n + 1]

RECURSIVE Pow10(_)
Pow10(k) == IF k = 0 THEN 1 ELSE 10 * Pow10(k - 1)

\* not a number
NaN == <<0, 0>>

\* value.replace(/[^0-9.]/g, '')
cleaned(value) == SelectSeq(value, LAMBDA c : c \in DigitChars \cup {"."})

\* length of the run of digits a string starts with
RECURSIVE DigitRun(_)
DigitRun(s) ==
    IF Len(s) = 0 \/ Head(s) \notin DigitChars THEN 0 ELSE 1 + DigitRun(Tail(s))

RECURSIVE DigitsToInt(_)
DigitsToInt(s) ==
    IF Len(s) = 0 THEN 0
    ELSE 10 * DigitsToInt(SubSeq(s, 1, Len(s) - 1)) + DigitVal(s[Len(s)])

\* parseFloat on a string of digits and points: the value of the longest
\* prefix that is a decimal literal (digits, digits.digits, digits., .digits),
\* NaN when there is none
parseFloat(s) ==
    LET i == DigitRun(s)
        rest == SubSeq(s, i + 1, Len(s))
        f == IF Len(rest) > 0 /\ Head(rest) = "." THEN DigitRun(Tail(rest)) ELSE 0
    IN  IF i = 0 /\ f = 0 THEN NaN
        ELSE Norm(DigitsToInt(SubSeq(s, 1, i)) * Pow10(f)
                    + DigitsToInt(SubSeq(rest, 2, f + 1)),
                  Pow10(f))

\* parseFloat(cleaned) || 0
parseCurrencyInput(value) == OrNum(parseFloat(cleaned(value)), R(0))

\* the currency sign of the Riel, one character
RielSign == "riel"

GroupSep(locale) == IF locale = "de-DE" THEN "." ELSE ","
DecimalSep(locale) == IF locale = "de-DE" THEN "," ELSE "."

RECURSIVE DigitString(_)
DigitString(n) ==
    IF n < 10 THEN <<DigitChar(n)>>
    ELSE Append(DigitString(n \div 10), DigitChar(n % 10))

\* the last k digits of n, with leading zeros
RECURSIVE Padded(_, _)
Padded(n, k) ==
    IF k = 0 THEN <<>> ELSE Append(Padded(n \div 10, k - 1), DigitChar(n % 10))

RECURSIVE Grouped(_, _)
Grouped(n, sep) ==
    IF n < 1000 THEN DigitString(n)
    ELSE Grouped(n \div 1000, sep) \o <<sep>> \o Padded(n % 1000, 3)

\* Number.prototype.toLocaleString(locale, { minimumFractionDigits: fd,
\* maximumFractionDigits: fd }): rounded half away from zero to fd digits
toLocaleString(amount, locale, fd) ==
    LET a == Abs(amount[1])
        scaled == (2 * a * Pow10(fd) + amount[2]) \div (2 * amount[2])
        sign == IF amount[1] < 0 THEN <<"-">> ELSE <<>>
        whole == Grouped(scaled \div Pow10(fd), GroupSep(locale))
    IN  IF fd = 0 THEN sign \o whole
        ELSE sign \o whole \o <<DecimalSep(locale)>> \o Padded(scaled % Pow10(fd), fd)

\* variant: the number is formatted in the locale of the host
NumberLocale_ofHost(host) == host

\* the locale handed to toLocaleString, whatever the locale of the host
NumberLocale(host) == "en-US"

\* formatCurrency, called on a host whose default locale is `host`
formatCurrency(amount, cur, host) ==
    IF cur = "USD"
    THEN <<"$">> \o toLocaleString(amount, NumberLocale(host), 2)
    ELSE toLocaleString(amount, NumberLocale(host), 0) \o <<RielSign>>

InputChars == {"1", "2", "3", ".", ","}
Texts == UNION {[1..n -> InputChars] : n \in 0..MaxLen}
Amounts ==
    {R(n) : n \in 0..MaxAmount}
        \cup {R(15000), R(999999), R(1000000), R(1234567), R(-5), <<15, 2>>, <<1, 8>>}
HostLocales == {"en-US", "de-DE"}

\* a call is about to be made: the arguments are chosen
UtilInit ==
    /\ storageWritable = TRUE
    /\ showPreview = FALSE
    /\ currentInvoice = <<>>
    /\ customerName = ""
    /\ date = Today
    /\ currency = "USD"
    /\ items = DefaultItems
    /\ discountPercent = R(0)
    /\ deliveryFee = R(0)
    /\ storage = <<>>
    /\ isProcessing = FALSE
    /\ rendering = "none"
    /\ pendingBlob = 0
    /\ pendingNative = 0
    /\ \/ \E t \in Texts : effect = Effect("text", t, <<>>)
       \/ \E a \in Amounts, c \in Currencies, h \in HostLocales :
            effect = Effect("amount", [amount |-> a, currency |-> c, host |-> h], <<>>)

CallParseCurrencyInput ==
    /\ effect.op = "text"
    /\ effect' = Effect("parseCurrencyInput", effect.arg, parseCurrencyInput(effect.arg))
    /\ UNCHANGED <<showPreview, currentInvoice, formVars, storage, storageWritable,
                   previewVars>>

CallFormatCurrency ==
    /\ effect.op = "amount"
    /\ effect' = Effect("formatCurrency", effect.arg,
                        formatCurrency(effect.arg.amount, effect.arg.currency,
                                       effect.arg.host))
    /\ UNCHANGED <<showPreview, currentInvoice, formVars, storage, storageWritable,
                   previewVars>>

UtilNext == CallParseCurrencyInput \/ CallFormatCurrency

UtilSpec == UtilInit /\ [][UtilNext]_vars

----------------------------------------------------------------------------
(* Properties of the utilities and of the item list *)

CountOf(s, c) == Len(SelectSeq(s, LAMBDA x : x = c))

\* the whole string is one decimal number: at most one point, some digit
ValidDecimal(s) ==
    /\ CountOf(s, ".") <= 1
    /\ \E i \in DOMAIN s : s[i] \in DigitChars

\* C11: parseCurrencyInput returns 0 whenever the characters left after
\* stripping everything but digits and points are not one valid decimal
\* number (empty, only punctuation, more than one point such as "1.2.3")
C11_InvalidYieldsZero ==
    (effect.op = "parseCurrencyInput" /\ ~ValidDecimal(cleaned(effect.arg))) =>
        effect.out = R(0)

\* str is the decimal digits of n with a comma before every group of three
\* digits counted from the right
GroupedInThrees(str, n) ==
    /\ SelectSeq(str, LAMBDA c : c # ",") = [i \in DOMAIN toString(n) |-> DigitChar(toString(n)[i])]
    /\ \A i \in DOMAIN str : (str[i] = ",") <=> ((Len(str) - i) % 4 = 3)

WholeAmount(a) == a[2] = 1 /\ a[1] >= 0

\* C12: for every non-negative whole amount, on every host, formatCurrency
\* gives '$', the digits grouped in threes with commas and '.00' for USD,
\* and the grouped digits followed by the Riel sign for KHR
\* (11 USD -> "$11.00", 15000 KHR -> "15,000" and the sign)
C12_FormatOfWholeAmounts ==
    (effect.op = "formatCurrency" /\ WholeAmount(effect.arg.amount)) =>
        LET out == effect.out
            n == effect.arg.amount[1]
        IN  /\ effect.arg.currency = "USD" =>
                /\ Len(out) >= 5
                /\ out[1] = "$"
                /\ GroupedInThrees(SubSeq(out, 2, Len(out) - 3), n)
                /\ SubSeq(out, Len(out) - 2, Len(out)) = <<".", "0", "0">>
            /\ effect.arg.currency = "KHR" =>
                /\ Len(out) >= 2
                /\ GroupedInThrees(SubSeq(out, 1, Len(out) - 1), n)
                /\ out[Len(out)] = RielSign
            /\ (n = 11 /\ effect.arg.currency = "USD") =>
                out = <<"$", "1", "1", ".", "0", "0">>
            /\ (n = 15000 /\ effect.arg.currency = "KHR") =>
                out = <<"1", "5", ",", "0", "0", "0", RielSign>>

\* 1234567 has been formatted as USD on a host whose locale is not en-US
C12_Witness ==
    /\ effect.op = "formatCurrency"
    /\ effect.arg = [amount |-> R(1234567), currency |-> "USD", host |-> "de-DE"]
    /\ effect.out = <<"$", "1", ",", "2", "3", "4", ",", "5", "6", "7", ".", "0", "0">>

\* C13: from the default draft, after any sequence of addItem, removeItem
\* and updateItem no two items of the list have the same id
C13_IdsDistinct ==
    \A i, j \in DOMAIN items : items[i].id = items[j].id => i = j

\* addItem has just put a second item behind an item that was edited
C13_Witness ==
    /\ effect.op = "addItem"
    /\ Len(items) = 2
    /\ items[1].amount # R(0)
    /\ items[2].id = toString(2)

\* C14: the id addItem gives a new item is never the id of an item that
\* existed earlier in the draft, removed ones included; stated for the item
\* removed by the step before: an addItem that follows a removeItem does not
\* hand out the id that was just removed
C14_RemovedIdNotReused ==
    [][(/\ effect.op = "removeItem"
        /\ effect.arg \notin ItemIds
        /\ effect'.op = "addItem")
       => items'[Len(items')].id # effect.arg]_vars

\* items without the item at position k
WithoutPosition(its, k) == SubSeq(its, 1, k - 1) \o SubSeq(its, k + 1, Len(its))

RemovesExactlyOne ==
    effect'.op = "removeItem" =>
        IF Len(items) = 1
        THEN items' = items
        ELSE \E k \in DOMAIN items :
                /\ items[k].id = effect'.arg
                /\ items' = WithoutPosition(items, k)

====
